---------------------------- MODULE Spec2Model ----------------------------
(***************************************************************************)
(* score_image_with_http (samples/deployment/deployment.ipynb): the HTTP   *)
(* scoring client of the deployment notebook, run by a Python 3 kernel.    *)
(*                                                                         *)
(* A text (Python str) is a sequence of one-character strings, a bytes     *)
(* value is a sequence of integers 0..255.  A Python object is a record    *)
(* tagged by its type:                                                     *)
(*   [t |-> "null"]                         None                           *)
(*   [t |-> "bool", b |-> TRUE]             bool                           *)
(*   [t |-> "num",  lit |-> text]           int / float, kept by literal   *)
(*   [t |-> "str",  s |-> text]             str                            *)
(*   [t |-> "list", items |-> seq]          list                           *)
(*   [t |-> "dict", keys |-> seq of text, vals |-> seq]   dict (ordered)   *)
(*   [t |-> "set"]                          an object json cannot encode   *)
(***************************************************************************)
EXTENDS Integers, Sequences, FiniteSets, TLC

VARIABLES
    file,           \* the file at path `image`: [state, content]
    service_key,    \* argument: None or a str
    parameters,     \* argument: the dict forwarded in the request
    pc,             \* position of the call in the function body
    headers,        \* local: header name -> header value (text)
    f,              \* the file handle of the with block: "none", "open", "closed"
    image_buffer,   \* local: the bytes read from the file
    body,           \* local: the serialized request document (text)
    net,            \* every requests.post issued so far: <<[headers, data]>>
    inflight,       \* TRUE while requests.post has not come back
    post_error,     \* the exception requests.post raised, "" when none
    r,              \* local: the response [status, text]
    result,         \* local: json.loads(r.text)
    outcome,        \* how the call ended: [kind |-> "none" | "return" | "raise", ...]
    parameters_id,  \* identity of the dict object bound to `parameters`
    default_dict,   \* value of the one dict made by `parameters={}` at def time
    server,         \* the responses the endpoint may give
    other,          \* the frame of a second, concurrent call while it is not running
    cur,            \* which call is running: 1 or 2
    num_images,     \* batch loop: num_images
    images,         \* batch loop: number of images in the data set
    loop_pc,        \* batch loop: position in the loop
    img_index,      \* batch loop: img_index
    issued,         \* batch loop: image indices score_image was called for, in order
    outstanding,    \* batch loop: image indices whose call has not come back
    printed,        \* batch loop: the results printed so far
    cell_pc,        \* deployment cell: position in the cell
    deployment_name,\* deployment cell: deployment_name
    services,       \* deployment cell: names of the webservices in the cluster
    existing,       \* deployment cell: what is_existing_service() reported
    calls           \* deployment cell: the AMLDeployment methods invoked, in order

\* What the steps of score_image_with_http leave alone: the identity of its
\* argument, the function's default object, the endpoint, the other call and
\* the batch loop of the notebook.
loopVars == <<num_images, images, loop_pc, img_index, issued, outstanding, printed>>
cellVars == <<cell_pc, deployment_name, services, existing, calls>>
outerVars == <<parameters_id, default_dict, server, other, cur, loopVars, cellVars>>

vars == <<file, service_key, parameters, pc, headers, f, image_buffer, body,
          net, inflight, post_error, r, result, outcome, outerVars>>

-----------------------------------------------------------------------------
(* Python objects *)

PyNone == [t |-> "null"]
PyBool(b) == [t |-> "bool", b |-> b]
PyNum(lit) == [t |-> "num", lit |-> lit]
PyStr(s) == [t |-> "str", s |-> s]
PyList(items) == [t |-> "list", items |-> items]
PyDict(keys, vals) == [t |-> "dict", keys |-> keys, vals |-> vals]
PySet == [t |-> "set"]

Digits == {"0", "1", "2", "3", "4", "5", "6", "7", "8", "9"}
Whitespace == {" ", "\t", "\n", "\r"}

RECURSIVE Concat(_)
\* The concatenation of a sequence of texts.
Concat(ts) == IF ts = <<>> THEN <<>> ELSE Head(ts) \o Concat(Tail(ts))

-----------------------------------------------------------------------------
(* base64.b64encode and "{0}".format(bytes) *)

B64Alphabet ==
    << "A","B","C","D","E","F","G","H","I","J","K","L","M","N","O","P",
       "Q","R","S","T","U","V","W","X","Y","Z","a","b","c","d","e","f",
       "g","h","i","j","k","l","m","n","o","p","q","r","s","t","u","v",
       "w","x","y","z","0","1","2","3","4","5","6","7","8","9","+","/" >>

\* Faulty variant: the URL-safe alphabet ("-" and "_" for "+" and "/").
B64CharUrlSafe(n) ==
    IF n = 62 THEN "-" ELSE IF n = 63 THEN "_" ELSE B64Alphabet[n + 1]

B64Char(n) == B64Alphabet[n + 1]

RECURSIVE b64encode(_)
\* base64.b64encode: 3 bytes -> 4 characters, "=" padding, no line breaks.
b64encode(bs) ==
    IF Len(bs) = 0 THEN <<>>
    ELSE IF Len(bs) = 1 THEN
        << B64Char(bs[1] \div 4), B64Char((bs[1] % 4) * 16), "=", "=" >>
    ELSE IF Len(bs) = 2 THEN
        << B64Char(bs[1] \div 4),
           B64Char((bs[1] % 4) * 16 + bs[2] \div 16),
           B64Char((bs[2] % 16) * 4), "=" >>
    ELSE
        << B64Char(bs[1] \div 4),
           B64Char((bs[1] % 4) * 16 + bs[2] \div 16),
           B64Char((bs[2] % 16) * 4 + bs[3] \div 64),
           B64Char(bs[3] % 64) >>
        \o b64encode(SubSeq(bs, 4, Len(bs)))

\* str(bytes) of Python 3: the repr b'...'.  base64 text holds no quote,
\* backslash or non-printable character, so nothing in it is escaped.
BytesRepr(bs) == <<"b", "'">> \o bs \o <<"'">>

\* "{0}".format(encoded), encoded a bytes object.
FormatBytes(encoded) == BytesRepr(encoded)

-----------------------------------------------------------------------------
(* json.dumps with the default separators (", " and ": ") *)

Escape(c) ==
    CASE c = "\"" -> <<"\\", "\"">>
      [] c = "\\" -> <<"\\", "\\">>
      [] c = "\n" -> <<"\\", "n">>
      [] c = "\r" -> <<"\\", "r">>
      [] c = "\t" -> <<"\\", "t">>
      [] OTHER -> <<c>>

RECURSIVE EscapeText(_)
EscapeText(s) == IF s = <<>> THEN <<>> ELSE Escape(Head(s)) \o EscapeText(Tail(s))

Quote(s) == <<"\"">> \o EscapeText(s) \o <<"\"">>

RECURSIVE Serializable(_)
\* json.dumps raises TypeError on an object it has no encoding for.
Serializable(v) ==
    CASE v.t = "list" -> \A i \in 1..Len(v.items) : Serializable(v.items[i])
      [] v.t = "dict" -> \A i \in 1..Len(v.vals) : Serializable(v.vals[i])
      [] v.t = "set" -> FALSE
      [] OTHER -> TRUE

RECURSIVE Dumps(_)
Dumps(v) ==
    CASE v.t = "null" -> <<"n", "u", "l", "l">>
      [] v.t = "bool" -> IF v.b THEN <<"t", "r", "u", "e">>
                         ELSE <<"f", "a", "l", "s", "e">>
      [] v.t = "num" -> v.lit
      [] v.t = "str" -> Quote(v.s)
      [] v.t = "list" ->
           <<"[">>
           \o Concat([i \in 1..Len(v.items) |->
                  (IF i > 1 THEN <<",", " ">> ELSE <<>>) \o Dumps(v.items[i])])
           \o <<"]">>
      [] v.t = "dict" ->
           <<"{">>
           \o Concat([i \in 1..Len(v.keys) |->
                  (IF i > 1 THEN <<",", " ">> ELSE <<>>)
                  \o Quote(v.keys[i]) \o <<":", " ">> \o Dumps(v.vals[i])])
           \o <<"}">>

-----------------------------------------------------------------------------
(* json.loads: the scanner of Python's json.decoder / json.scanner *)

Fail == [ok |-> FALSE]
Ok(v, e) == [ok |-> TRUE, val |-> v, end |-> e]

\* The character of s at position i, "" past the end.
At(s, i) == IF i >= 1 /\ i <= Len(s) THEN s[i] ELSE ""

\* s[i:].startswith(w)
StartsWith(s, i, w) == i + Len(w) - 1 <= Len(s) /\ SubSeq(s, i, i + Len(w) - 1) = w

RECURSIVE SkipWs(_, _)
SkipWs(s, i) == IF At(s, i) \in Whitespace THEN SkipWs(s, i + 1) ELSE i

RECURSIVE SkipDigits(_, _)
SkipDigits(s, i) == IF At(s, i) \in Digits THEN SkipDigits(s, i + 1) ELSE i

HexLower == <<"0","1","2","3","4","5","6","7","8","9","a","b","c","d","e","f">>
HexUpper == <<"0","1","2","3","4","5","6","7","8","9","A","B","C","D","E","F">>
IsHex(c) == \E i \in 1..16 : c = HexLower[i] \/ c = HexUpper[i]
HexVal(c) == (CHOOSE i \in 1..16 : c = HexLower[i] \/ c = HexUpper[i]) - 1

\* The printable ASCII characters, from code point 32 (the grave accent, which
\* a TLA+ string cannot hold, is named by its code point).
Ascii ==
    <<" ","!","\"","#","$","%","&","'","(",")","*","+",",","-",".","/",
       "0","1","2","3","4","5","6","7","8","9",":",";","<","=",">","?",
       "@","A","B","C","D","E","F","G","H","I","J","K","L","M","N","O",
       "P","Q","R","S","T","U","V","W","X","Y","Z","[","\\","]","^","_",
       "U+96","a","b","c","d","e","f","g","h","i","j","k","l","m","n","o",
       "p","q","r","s","t","u","v","w","x","y","z","{","|","}","~" >>

\* The character of code point n; outside ASCII it is named by its code point.
Chr(n) ==
    CASE n >= 32 /\ n <= 126 -> Ascii[n - 31]
      [] n = 9 -> "\t"
      [] n = 10 -> "\n"
      [] n = 13 -> "\r"
      [] OTHER -> "U+" \o ToString(n)

\* The character a backslash escape stands for, "" when there is none.
Unescape(c) ==
    CASE c = "\"" -> "\""
      [] c = "\\" -> "\\"
      [] c = "/" -> "/"
      [] c = "n" -> "\n"
      [] c = "r" -> "\r"
      [] c = "t" -> "\t"
      [] c = "b" -> Chr(8)
      [] c = "f" -> Chr(12)
      [] OTHER -> ""

RECURSIVE ScanString(_, _, _)
\* py_scanstring, strict: s[i] is the character after the opening quote, acc
\* the characters decoded so far.  A control character inside a string, an
\* unknown escape and a missing closing quote are errors.
ScanString(s, i, acc) ==
    LET c == At(s, i) IN
    CASE c = "" -> Fail
      [] c = "\"" -> Ok(acc, i + 1)
      [] c \in {"\n", "\r", "\t"} -> Fail
      [] c = "\\" ->
           LET e == At(s, i + 1) IN
           IF e = "u" THEN
               IF \A k \in 2..5 : IsHex(At(s, i + k))
               THEN ScanString(s, i + 6,
                        Append(acc, Chr(HexVal(s[i + 2]) * 4096 + HexVal(s[i + 3]) * 256
                                        + HexVal(s[i + 4]) * 16 + HexVal(s[i + 5]))))
               ELSE Fail
           ELSE IF Unescape(e) = "" THEN Fail
           ELSE ScanString(s, i + 2, Append(acc, Unescape(e)))
      [] OTHER -> ScanString(s, i + 1, Append(acc, c))

\* NUMBER_RE = (-?(?:0|[1-9]\d*))(\.\d+)?([eE][-+]?\d+)? matched at s[i]: the
\* position after the match, 0 when there is no match.
NumberEnd(s, i) ==
    LET j == IF At(s, i) = "-" THEN i + 1 ELSE i
        intEnd == IF At(s, j) = "0" THEN j + 1
                  ELSE IF At(s, j) \in Digits THEN SkipDigits(s, j)
                  ELSE 0
        fracEnd == IF At(s, intEnd) = "." /\ At(s, intEnd + 1) \in Digits
                   THEN SkipDigits(s, intEnd + 1) ELSE intEnd
        k == IF At(s, fracEnd + 1) \in {"+", "-"} THEN fracEnd + 2 ELSE fracEnd + 1
        expEnd == IF At(s, fracEnd) \in {"e", "E"} /\ At(s, k) \in Digits
                  THEN SkipDigits(s, k) ELSE fracEnd
    IN IF intEnd = 0 THEN 0 ELSE expEnd

RECURSIVE IndexOf(_, _, _)
\* The position of key k in keys at or after i, 0 when absent.
IndexOf(keys, k, i) ==
    IF i > Len(keys) THEN 0
    ELSE IF keys[i] = k THEN i
    ELSE IndexOf(keys, k, i + 1)

\* d[k] = v on a dict: a key seen again keeps its place and takes the new value.
DictPut(d, k, v) ==
    LET i == IndexOf(d.keys, k, 1) IN
    IF i = 0 THEN PyDict(Append(d.keys, k), Append(d.vals, v))
    ELSE PyDict(d.keys, [d.vals EXCEPT ![i] = v])

RECURSIVE ScanOnce(_, _), JSONArray(_, _, _), JSONObject(_, _, _)
\* scan_once of json.scanner.py_make_scanner: the value that starts at s[i].
ScanOnce(s, i) ==
    LET c == At(s, i) IN
    CASE c = "\"" ->
           LET str == ScanString(s, i + 1, <<>>) IN
           IF str.ok THEN Ok(PyStr(str.val), str.end) ELSE Fail
      [] c = "{" ->
           LET j == SkipWs(s, i + 1) IN
           IF At(s, j) = "}" THEN Ok(PyDict(<<>>, <<>>), j + 1)
           ELSE IF At(s, j) = "\"" THEN JSONObject(s, j + 1, PyDict(<<>>, <<>>))
           ELSE Fail
      [] c = "[" ->
           LET j == SkipWs(s, i + 1) IN
           IF At(s, j) = "]" THEN Ok(PyList(<<>>), j + 1)
           ELSE JSONArray(s, j, <<>>)
      [] c = "n" /\ StartsWith(s, i, <<"n", "u", "l", "l">>) -> Ok(PyNone, i + 4)
      [] c = "t" /\ StartsWith(s, i, <<"t", "r", "u", "e">>) -> Ok(PyBool(TRUE), i + 4)
      [] c = "f" /\ StartsWith(s, i, <<"f", "a", "l", "s", "e">>) -> Ok(PyBool(FALSE), i + 5)
      [] NumberEnd(s, i) # 0 ->
           Ok(PyNum(SubSeq(s, i, NumberEnd(s, i) - 1)), NumberEnd(s, i))
      [] c = "N" /\ StartsWith(s, i, <<"N", "a", "N">>) ->
           Ok(PyNum(<<"N", "a", "N">>), i + 3)
      [] c = "I" /\ StartsWith(s, i, <<"I", "n", "f", "i", "n", "i", "t", "y">>) ->
           Ok(PyNum(<<"I", "n", "f", "i", "n", "i", "t", "y">>), i + 8)
      [] c = "-" /\ StartsWith(s, i, <<"-", "I", "n", "f", "i", "n", "i", "t", "y">>) ->
           Ok(PyNum(<<"-", "I", "n", "f", "i", "n", "i", "t", "y">>), i + 9)
      [] OTHER -> Fail

\* JSONArray: s[i] starts the next element, items are the elements so far.
JSONArray(s, i, items) ==
    LET v == ScanOnce(s, i) IN
    IF ~v.ok THEN Fail
    ELSE LET j == SkipWs(s, v.end) IN
         CASE At(s, j) = "]" -> Ok(PyList(Append(items, v.val)), j + 1)
           [] At(s, j) = "," -> JSONArray(s, SkipWs(s, j + 1), Append(items, v.val))
           [] OTHER -> Fail

\* JSONObject: s[i] is the character after the opening quote of the next key,
\* d the pairs so far.
JSONObject(s, i, d) ==
    LET key == ScanString(s, i, <<>>) IN
    IF ~key.ok THEN Fail
    ELSE LET colon == SkipWs(s, key.end) IN
         IF At(s, colon) # ":" THEN Fail
         ELSE LET v == ScanOnce(s, SkipWs(s, colon + 1)) IN
              IF ~v.ok THEN Fail
              ELSE LET j == SkipWs(s, v.end)
                       k == SkipWs(s, j + 1)
                   IN CASE At(s, j) = "}" -> Ok(DictPut(d, key.val, v.val), j + 1)
                        [] At(s, j) = "," /\ At(s, k) = "\"" ->
                             JSONObject(s, k + 1, DictPut(d, key.val, v.val))
                        [] OTHER -> Fail

\* json.loads(s) of a str: one value between optional whitespace, nothing after
\* it ("Extra data" otherwise).
Loads(s) ==
    LET v == ScanOnce(s, SkipWs(s, 1)) IN
    IF v.ok /\ SkipWs(s, v.end) = Len(s) + 1 THEN Ok(v.val, v.end) ELSE Fail

-----------------------------------------------------------------------------
(* The steps of the try block of score_image_with_http *)

NoVal == [ok |-> FALSE]
Val(v) == [ok |-> TRUE, val |-> v]

\* Faulty variant: only a list can be indexed.
Subscript0ListOnly(obj) ==
    IF obj.t = "list" /\ Len(obj.items) > 0 THEN Val(obj.items[1]) ELSE NoVal

\* obj[0]: the first item of a list, the first character of a str; IndexError
\* when empty, KeyError on a dict (its keys are strs, never 0), TypeError on
\* a number, a bool or None.
Subscript0(obj) ==
    CASE obj.t = "list" /\ Len(obj.items) > 0 -> Val(obj.items[1])
      [] obj.t = "str" /\ Len(obj.s) > 0 -> Val(PyStr(<<obj.s[1]>>))
      [] OTHER -> NoVal

\* Faulty variant: the first element is not parsed again.
LoadsObjLenient(obj) == Val(obj)

\* Faulty variant: an element that is not a str is taken as already parsed.
LoadsObjAnyType(obj) ==
    IF obj.t # "str" THEN Val(obj)
    ELSE IF Loads(obj.s).ok THEN Val(Loads(obj.s).val) ELSE NoVal

\* json.loads(obj): TypeError unless obj is a str, then the parse of its text.
LoadsObj(obj) ==
    IF obj.t = "str" /\ Loads(obj.s).ok THEN Val(Loads(obj.s).val) ELSE NoVal

\* Faulty variant: every element of a list is parsed, not only the first.
FailingStepAllElements(text) ==
    IF ~Loads(text).ok THEN "outer"
    ELSE IF ~Subscript0(Loads(text).val).ok THEN "index"
    ELSE IF /\ Loads(text).val.t = "list"
            /\ \E i \in 1..Len(Loads(text).val.items) :
                   ~LoadsObj(Loads(text).val.items[i]).ok
         THEN "inner"
    ELSE IF ~LoadsObj(Subscript0(Loads(text).val).val).ok THEN "inner"
    ELSE "none"

\* The step of the try block that raises on response text `text`: "outer"
\* (json.loads(r.text)), "index" (result[0]), "inner" (json.loads(result[0])),
\* "none" when the block completes.
FailingStep(text) ==
    IF ~Loads(text).ok THEN "outer"
    ELSE IF ~Subscript0(Loads(text).val).ok THEN "index"
    ELSE IF ~LoadsObj(Subscript0(Loads(text).val).val).ok THEN "inner"
    ELSE "none"

\* Faulty variant: the error kind tells the failing step.
ExceptClauseByStep(step) ==
    CASE step = "outer" -> "JSONDecodeError"
      [] step = "index" -> "IndexError"
      [] OTHER -> "ValueError"

\* The bare except clause: whatever was raised, at whichever step, is replaced
\* by one ValueError.
ExceptClause(step) == "ValueError"

ErrorPrefix ==
    <<"I", "n", "c", "o", "r", "r", "e", "c", "t", " ", "o", "u", "t", "p",
      "u", "t", " ", "f", "o", "r", "m", "a", "t", ".", " ", "R", "e", "s",
      "u", "l", "t", " ", "c", "a", "n", "t", " ", "n", "o", "t", " ", "b",
      "e", " ", "p", "a", "r", "s", "e", "d", ":", " ">>

\* Faulty variant: the message leaves the response text out.
ErrorMessageNoText(text) == ErrorPrefix

\* The message of the ValueError: the fixed prefix and then r.text.
ErrorMessage(text) == ErrorPrefix \o text

\* Faulty variant: the parsed first element is returned.
ReturnParsed(res) == LoadsObj(Subscript0(res).val).val

\* The expression of the return statement: result[0].
ReturnValue(res) == Subscript0(res).val

-----------------------------------------------------------------------------
(* The request *)

ContentTypeJson == 
    <<"a", "p", "p", "l", "i", "c", "a", "t", "i", "o", "n", "/", "j", "s",
      "o", "n">>
BearerPrefix == <<"B", "e", "a", "r", "e", "r", " ">>
KeyImage == 
    <<"i", "m", "a", "g", "e", "_", "i", "n", "_", "b", "a", "s", "e", "6",
      "4">>
KeyParameters == 
    <<"p", "a", "r", "a", "m", "e", "t", "e", "r", "s">>

\* Faulty variant: the token follows "Bearer" without the space.
AuthValueNoSpace(key) == <<"B", "e", "a", "r", "e", "r">> \o key

\* The Authorization header value for a str service key.
AuthValue(key) == BearerPrefix \o key

\* Faulty variant: an Accept header is sent as well.
MakeHeadersWithAccept(key) ==
    IF key = PyNone
    THEN [h \in {"Content-Type", "Accept"} |-> ContentTypeJson]
    ELSE [h \in {"Content-Type", "Accept", "Authorization"} |->
              IF h = "Authorization" THEN AuthValue(key.s) ELSE ContentTypeJson]

\* Faulty variant: the test is `not service_key`, which an empty key passes too.
MakeHeadersTruthy(key) ==
    IF key = PyNone \/ key = PyStr(<<>>)
    THEN [h \in {"Content-Type"} |-> ContentTypeJson]
    ELSE [h \in {"Content-Type", "Authorization"} |->
              IF h = "Authorization" THEN AuthValue(key.s) ELSE ContentTypeJson]

\* The headers dict, by the test `service_key is None`.
MakeHeaders(key) ==
    IF key = PyNone
    THEN [h \in {"Content-Type"} |-> ContentTypeJson]
    ELSE [h \in {"Content-Type", "Authorization"} |->
              IF h = "Content-Type" THEN ContentTypeJson ELSE AuthValue(key.s)]

\* Faulty variant: the parameters are not forwarded, {} is sent.
MakePayloadWithoutParameters(bytes, params) ==
    PyList(<< PyDict(<<KeyImage, KeyParameters>>,
                     <<PyStr(FormatBytes(b64encode(bytes))), PyDict(<<>>, <<>>)>>) >>)

\* Faulty variant: the image request is appended to the payload twice.
MakePayloadTwice(bytes, params) ==
    PyList(<< PyDict(<<KeyImage, KeyParameters>>,
                     <<PyStr(FormatBytes(b64encode(bytes))), params>>),
              PyDict(<<KeyImage, KeyParameters>>,
                     <<PyStr(FormatBytes(b64encode(bytes))), params>>) >>)

\* image_request, appended to the empty payload list.
MakePayload(bytes, params) ==
    PyList(<< PyDict(<<KeyImage, KeyParameters>>,
                     <<PyStr(FormatBytes(b64encode(bytes))), params>>) >>)

-----------------------------------------------------------------------------
(* Inputs *)

\* Longest file content enumerated, over the bytes of ByteSamples.
MaxFileLen == 1
\* Longest response body enumerated, over the characters of BodyChars.
MaxBodyLen == 3

ByteSamples == {0, 255}
BodyChars == {"[", "]", "\"", "1"}

SeqsUpTo(S, n) == UNION {[1..k -> S] : k \in 0..n}

\* Contents of the image file: every short byte string, one file for each
\* length modulo 3, and the ten bytes 0x00..0x09.
TenBytes == <<0, 1, 2, 3, 4, 5, 6, 7, 8, 9>>
FileContents ==
    SeqsUpTo(ByteSamples, MaxFileLen) \cup {TenBytes, <<77, 97, 110>>, <<255, 254>>}

\* The file at the path: present and readable, missing, not permitted, or
\* failing while it is read.
Files ==
    [state : {"ok"}, content : FileContents]
    \cup [state : {"missing", "denied", "ioerror"}, content : {TenBytes}]

KeyAbc123 == <<"a", "b", "c", "1", "2", "3">>
ServiceKeys == {PyNone, PyStr(<<>>), PyStr(KeyAbc123)}

AddSoftmax ==
    <<"a", "d", "d", "_", "s", "o", "f", "t", "m", "a", "x">>
ResizeDims ==
    <<"i", "m", "a", "g", "e", "_", "r", "e", "s", "i", "z", "e", "_", "d",
      "i", "m", "s">>
\* {} (the default), {"add_softmax": True}, and a dict holding a value json
\* cannot encode.
ParameterChoices ==
    { PyDict(<<>>, <<>>),
      PyDict(<<AddSoftmax>>, <<PyBool(TRUE)>>),
      PyDict(<<ResizeDims>>, <<PySet>>) }

\* Objects a well-behaved scoring service encodes twice.
LabelCat ==
    PyDict(<< <<"l", "a", "b", "e", "l">>, <<"s", "c", "o", "r", "e">> >>,
           << PyStr(<<"c", "a", "t">>), PyNum(<<"0", ".", "9", "1">>) >>)
ServerObjects ==
    { LabelCat, PyNone, PyStr(<<"o", "\"", "k">>),
      PyList(<<PyNum(<<"1">>), PyBool(TRUE)>>) }

\* The double encoding: the array of one string, the string the encoding of v.
ServerBody(v) == Dumps(PyList(<<PyStr(Dumps(v))>>))

\* {"x":1}   (a JSON object)
BodyObject ==
    <<"{", "\"", "x", "\"", ":", "1", "}">>
\* "123"   (a JSON string that starts with a digit)
BodyDigitString ==
    <<"\"", "1", "2", "3", "\"">>
\* "abc"   (a JSON string that starts with a letter)
BodyWordString ==
    <<"\"", "a", "b", "c", "\"">>
\* 5
BodyNumber ==
    <<"5">>
\* true
BodyTrue ==
    <<"t", "r", "u", "e">>
\* null
BodyNull ==
    <<"n", "u", "l", "l">>
\* ["not json"]
BodyNotJsonElement ==
    <<"[", "\"", "n", "o", "t", " ", "j", "s", "o", "n", "\"", "]">>
\* [{"label":"cat"}]
BodySinglyEncoded ==
    <<"[", "{", "\"", "l", "a", "b", "e", "l", "\"", ":", "\"", "c", "a",
      "t", "\"", "}", "]">>
\* [5]
BodyNumberElement ==
    <<"[", "5", "]">>
\* [null]
BodyNullElement ==
    <<"[", "n", "u", "l", "l", "]">>
\* [["1"]]
BodyNestedList ==
    <<"[", "[", "\"", "1", "\"", "]", "]">>
\* ["1", "x"]
BodyTwoElements ==
    <<"[", "\"", "1", "\"", ",", " ", "\"", "x", "\"", "]">>
\* ["x", "1"]
BodyTwoElementsBadFirst ==
    <<"[", "\"", "x", "\"", ",", " ", "\"", "1", "\"", "]">>
\* ["{\"label\":\"cat\",\"score\":0.91}"]   (a doubly encoded classification result)
BodyCat ==
    <<"[", "\"", "{", "\\", "\"", "l", "a", "b", "e", "l", "\\", "\"", ":",
      "\\", "\"", "c", "a", "t", "\\", "\"", ",", "\\", "\"", "s", "c", "o",
      "r", "e", "\\", "\"", ":", "0", ".", "9", "1", "}", "\"", "]">>
\* <html>   (not JSON)
BodyHtml ==
    <<"<", "h", "t", "m", "l", ">">>
\* ["1"
BodyUnterminated ==
    <<"[", "\"", "1", "\"">>
\* ["1"]x
BodyExtraData ==
    <<"[", "\"", "1", "\"", "]", "x">>
\*  ["1"] 
BodyPadded ==
    <<" ", "[", "\"", "1", "\"", "]", " ">>

SampleBodies ==
    { BodyObject, BodyDigitString, BodyWordString, BodyNumber,
      BodyTrue, BodyNull, BodyNotJsonElement, BodySinglyEncoded,
      BodyNumberElement, BodyNullElement, BodyNestedList,
      BodyTwoElements, BodyTwoElementsBadFirst, BodyCat, BodyHtml,
      BodyUnterminated, BodyExtraData, BodyPadded }

Bodies ==
    SeqsUpTo(BodyChars, MaxBodyLen) \cup SampleBodies
    \cup {ServerBody(v) : v \in ServerObjects}

StatusCodes == {200, 500}
Responses == [status : StatusCodes, text : Bodies]
NoResponse == [status |-> 0, text |-> <<>>]

\* requests.exceptions raised when the request cannot be completed.
TransportErrors == {"ConnectionError", "Timeout"}

-----------------------------------------------------------------------------
(* One call of score_image_with_http *)

\* The def statement evaluates the default `parameters={}` once: every call
\* that omits the argument is bound to that one object, a call that passes a
\* dict is bound to the caller's object.
DefaultId == 0
Omitted == [t |-> "omitted"]
BoundId(arg, caller_id) == IF arg = Omitted THEN DefaultId ELSE caller_id
BoundValue(arg) == IF arg = Omitted THEN default_dict ELSE arg

\* The dict `parameters` refers to, read through the reference.
ParametersObject == IF parameters_id = DefaultId THEN default_dict ELSE parameters

NoFrame == [pc |-> "none"]

\* The batch loop is not part of a single call.
LoopIdle ==
    /\ num_images = 0
    /\ images = 0
    /\ loop_pc = "idle"
    /\ img_index = 0
    /\ issued = <<>>
    /\ outstanding = {}
    /\ printed = <<>>

\* The deployment cell is not part of a single call.
CellIdle ==
    /\ cell_pc = "idle"
    /\ deployment_name = ""
    /\ services = {}
    /\ existing = "unknown"
    /\ calls = <<>>

NoOutcome == [kind |-> "none"]
Returned(v) == [kind |-> "return", value |-> v]
Raised(exc, msg) == [kind |-> "raise", exc |-> exc, msg |-> msg]

Init ==
    /\ file \in Files
    /\ service_key \in ServiceKeys
    /\ default_dict = PyDict(<<>>, <<>>)
    /\ cur = 1
    /\ \E arg \in ParameterChoices \cup {Omitted} :
           /\ parameters = BoundValue(arg)
           /\ parameters_id = BoundId(arg, cur)
    /\ server = Responses
    /\ other = NoFrame
    /\ LoopIdle
    /\ CellIdle
    /\ pc = "headers"
    /\ headers = << >>
    /\ f = "none"
    /\ image_buffer = <<>>
    /\ body = <<>>
    /\ net = <<>>
    /\ inflight = FALSE
    /\ post_error = ""
    /\ r = NoResponse
    /\ result = PyNone
    /\ outcome = NoOutcome

\* if service_key is None: headers = ... else: headers = ...
BuildHeaders ==
    /\ pc = "headers"
    /\ headers' = MakeHeaders(service_key)
    /\ pc' = "open"
    /\ UNCHANGED <<file, service_key, parameters, f, image_buffer, body, net,
                   inflight, post_error, r, result, outcome>>
    /\ UNCHANGED outerVars

\* The exception open() raises, "" when it succeeds.
OpenError(fl) ==
    CASE fl.state = "missing" -> "FileNotFoundError"
      [] fl.state = "denied" -> "PermissionError"
      [] OTHER -> ""

\* Faulty variant: a failure of open() is swallowed and the call goes on
\* with an empty image.
OpenFileIgnoringError ==
    /\ pc = "open"
    /\ IF OpenError(file) # ""
       THEN /\ f' = "closed"
            /\ pc' = "encode"
       ELSE /\ f' = "open"
            /\ pc' = "read"
    /\ UNCHANGED <<file, service_key, parameters, headers, image_buffer, body,
                   net, inflight, post_error, r, result, outcome>>
    /\ UNCHANGED outerVars

\* Faulty variant: a failure of open() is caught and replaced by a ValueError.
OpenFileWrapped ==
    /\ pc = "open"
    /\ IF OpenError(file) # ""
       THEN /\ outcome' = Raised("ValueError", <<>>)
            /\ pc' = "done"
            /\ f' = f
       ELSE /\ f' = "open"
            /\ pc' = "read"
            /\ outcome' = outcome
    /\ UNCHANGED <<file, service_key, parameters, headers, image_buffer, body,
                   net, inflight, post_error, r, result>>
    /\ UNCHANGED outerVars

\* Faulty variant: the file is opened for writing.
OpenModeWrite == "wb"

\* The mode of open(image, 'rb').
OpenMode == "rb"

\* What the file holds once open() with the mode has succeeded: the write
\* modes truncate it.
ContentAfterOpen(mode, content) ==
    IF mode \in {"wb", "w+b"} THEN <<>> ELSE content

\* with open(image, 'rb') as f:
OpenFile ==
    /\ pc = "open"
    /\ IF OpenError(file) # ""
       THEN /\ outcome' = Raised(OpenError(file), <<>>)
            /\ pc' = "done"
            /\ f' = f
            /\ file' = file
       ELSE /\ f' = "open"
            /\ pc' = "read"
            /\ outcome' = outcome
            /\ file' = [file EXCEPT !.content = ContentAfterOpen(OpenMode, file.content)]
    /\ UNCHANGED <<service_key, parameters, headers, image_buffer, body,
                   net, inflight, post_error, r, result>>
    /\ UNCHANGED outerVars

\* image_buffer = BytesIO(f.read()); an exception of read() leaves the with
\* block through __exit__, which closes f.
ReadFile ==
    /\ pc = "read"
    /\ IF file.state = "ioerror"
       THEN /\ f' = "closed"
            /\ outcome' = Raised("OSError", <<>>)
            /\ pc' = "done"
            /\ image_buffer' = image_buffer
       ELSE /\ image_buffer' = file.content
            /\ pc' = "exit_with"
            /\ UNCHANGED <<f, outcome>>
    /\ UNCHANGED <<file, service_key, parameters, headers, body, net, inflight,
                   post_error, r, result>>
    /\ UNCHANGED outerVars

\* Faulty variant: the file is read outside a with block and never closed.
ExitWithLeak ==
    /\ pc = "exit_with"
    /\ pc' = "encode"
    /\ UNCHANGED <<file, service_key, parameters, headers, f, image_buffer, body,
                   net, inflight, post_error, r, result, outcome>>
    /\ UNCHANGED outerVars

\* The end of the with block: f is closed.
ExitWith ==
    /\ pc = "exit_with"
    /\ f' = "closed"
    /\ pc' = "encode"
    /\ UNCHANGED <<file, service_key, parameters, headers, image_buffer, body,
                   net, inflight, post_error, r, result, outcome>>
    /\ UNCHANGED outerVars

\* Faulty variant: the encoded image is stored in the dict `parameters` refers
\* to before the request is built.
SerializeStoringImage ==
    /\ pc = "encode"
    /\ UNCHANGED <<parameters_id, server, other, cur, loopVars, cellVars>>
    /\ IF parameters_id = DefaultId
       THEN /\ default_dict' = DictPut(default_dict, KeyImage, PyStr(FormatBytes(b64encode(image_buffer))))
            /\ parameters' = parameters
       ELSE /\ parameters' = DictPut(parameters, KeyImage, PyStr(FormatBytes(b64encode(image_buffer))))
            /\ default_dict' = default_dict
    /\ IF Serializable(MakePayload(image_buffer, ParametersObject'))
       THEN /\ body' = Dumps(MakePayload(image_buffer, ParametersObject'))
            /\ pc' = "post"
            /\ outcome' = outcome
       ELSE /\ outcome' = Raised("TypeError", <<>>)
            /\ pc' = "done"
            /\ body' = body
    /\ UNCHANGED <<file, service_key, headers, f, image_buffer, net, inflight,
                   post_error, r, result>>

\* Faulty variant: an option is written into the dict `parameters` refers to
\* before the request is built; a call that omitted the argument writes into
\* the function's default object.
SerializeMutating ==
    /\ pc = "encode"
    /\ UNCHANGED <<parameters_id, server, other, cur, loopVars, cellVars>>
    /\ IF parameters_id = DefaultId
       THEN /\ default_dict' = DictPut(default_dict, AddSoftmax, PyBool(TRUE))
            /\ parameters' = parameters
       ELSE /\ parameters' = DictPut(parameters, AddSoftmax, PyBool(TRUE))
            /\ default_dict' = default_dict
    /\ IF Serializable(MakePayload(image_buffer, ParametersObject'))
       THEN /\ body' = Dumps(MakePayload(image_buffer, ParametersObject'))
            /\ pc' = "post"
            /\ outcome' = outcome
       ELSE /\ outcome' = Raised("TypeError", <<>>)
            /\ pc' = "done"
            /\ body' = body
    /\ UNCHANGED <<file, service_key, headers, f, image_buffer, net, inflight,
                   post_error, r, result>>

\* encoded = b64encode(...); image_request = {...}; payload.append(...);
\* body = json.dumps(payload)
Serialize ==
    /\ pc = "encode"
    /\ IF Serializable(MakePayload(image_buffer, ParametersObject))
       THEN /\ body' = Dumps(MakePayload(image_buffer, ParametersObject))
            /\ pc' = "post"
            /\ outcome' = outcome
       ELSE /\ outcome' = Raised("TypeError", <<>>)
            /\ pc' = "done"
            /\ body' = body
    /\ UNCHANGED <<file, service_key, parameters, headers, f, image_buffer, net,
                   inflight, post_error, r, result>>
    /\ UNCHANGED outerVars

\* r = requests.post(service_endpoint_url, data=body, headers=headers): the
\* call is made and the thread blocks in it.
Post ==
    /\ pc = "post"
    /\ net' = Append(net, [headers |-> headers, data |-> body, call |-> cur])
    /\ inflight' = TRUE
    /\ pc' = "wait"
    /\ UNCHANGED <<file, service_key, parameters, headers, f, image_buffer, body,
                   post_error, r, result, outcome>>
    /\ UNCHANGED outerVars

\* requests.post returns a response, whatever its status code.
Respond ==
    /\ pc = "wait"
    /\ \E resp \in server : r' = resp
    /\ inflight' = FALSE
    /\ pc' = "parse"
    /\ UNCHANGED <<file, service_key, parameters, headers, f, image_buffer, body,
                   net, post_error, result, outcome>>
    /\ UNCHANGED outerVars

\* Faulty variant: a failed request is issued again.
TransportFailRetry ==
    /\ pc = "wait"
    /\ \E exc \in TransportErrors : post_error' = exc
    /\ inflight' = FALSE
    /\ pc' = "post"
    /\ UNCHANGED <<file, service_key, parameters, headers, f, image_buffer, body,
                   net, r, result, outcome>>
    /\ UNCHANGED outerVars

\* Faulty variant: requests.post sits inside the try block, so its exception
\* is replaced by the ValueError of the except clause.
TransportFailWrapped ==
    /\ pc = "wait"
    /\ \E exc \in TransportErrors : post_error' = exc
    /\ outcome' = Raised("ValueError", ErrorPrefix)
    /\ inflight' = FALSE
    /\ pc' = "done"
    /\ UNCHANGED <<file, service_key, parameters, headers, f, image_buffer, body,
                   net, r, result>>
    /\ UNCHANGED outerVars

\* requests.post raises: the call is outside the try block, so the exception
\* leaves score_image_with_http.
TransportFail ==
    /\ pc = "wait"
    /\ \E exc \in TransportErrors :
           /\ post_error' = exc
           /\ outcome' = Raised(exc, <<>>)
    /\ inflight' = FALSE
    /\ pc' = "done"
    /\ UNCHANGED <<file, service_key, parameters, headers, f, image_buffer, body,
                   net, r, result>>
    /\ UNCHANGED outerVars

\* Faulty variant: an error status raises before the body is looked at, as
\* r.raise_for_status() would.
ParseChecksStatus ==
    /\ pc = "parse"
    /\ result' = IF r.status >= 400 \/ FailingStep(r.text) = "outer"
                 THEN result ELSE Loads(r.text).val
    /\ IF r.status >= 400
       THEN /\ outcome' = Raised("HTTPError", <<>>)
            /\ pc' = "done"
       ELSE IF FailingStep(r.text) = "none"
       THEN /\ pc' = "return"
            /\ outcome' = outcome
       ELSE /\ outcome' = Raised(ExceptClause(FailingStep(r.text)), ErrorMessage(r.text))
            /\ pc' = "done"
    /\ UNCHANGED <<file, service_key, parameters, headers, f, image_buffer, body,
                   net, inflight, post_error, r>>
    /\ UNCHANGED outerVars

\* try: result = json.loads(r.text); json.loads(result[0])
\* except: raise ValueError("Incorrect output format. ..." + r.text)
Parse ==
    /\ pc = "parse"
    /\ result' = IF FailingStep(r.text) = "outer" THEN result ELSE Loads(r.text).val
    /\ IF FailingStep(r.text) = "none"
       THEN /\ pc' = "return"
            /\ outcome' = outcome
       ELSE /\ outcome' = Raised(ExceptClause(FailingStep(r.text)), ErrorMessage(r.text))
            /\ pc' = "done"
    /\ UNCHANGED <<file, service_key, parameters, headers, f, image_buffer, body,
                   net, inflight, post_error, r>>
    /\ UNCHANGED outerVars

\* return result[0]
Return ==
    /\ pc = "return"
    /\ outcome' = Returned(ReturnValue(result))
    /\ pc' = "done"
    /\ UNCHANGED <<file, service_key, parameters, headers, f, image_buffer, body,
                   net, inflight, post_error, r, result>>
    /\ UNCHANGED outerVars

Next ==
    \/ BuildHeaders
    \/ OpenFile
    \/ ReadFile
    \/ ExitWith
    \/ Serialize
    \/ Post
    \/ Respond
    \/ TransportFail
    \/ Parse
    \/ Return

Spec == Init /\ [][Next]_vars

-----------------------------------------------------------------------------
(* A call that never times out *)

\* The steps the interpreter takes on its own.  requests.post is called
\* without a timeout, so nothing obliges it to come back: Respond and
\* TransportFail are steps of the network, not of the call.
OwnStep ==
    \/ BuildHeaders
    \/ OpenFile
    \/ ReadFile
    \/ ExitWith
    \/ Serialize
    \/ Post
    \/ Parse
    \/ Return

SpecLive == Init /\ [][Next]_vars /\ WF_vars(OwnStep)

-----------------------------------------------------------------------------
(* Two calls, interleaved *)

\* The frame of the running call: its arguments and locals.
Frame ==
    [ file |-> file, service_key |-> service_key, parameters |-> parameters,
      parameters_id |-> parameters_id, pc |-> pc, headers |-> headers, f |-> f,
      image_buffer |-> image_buffer, body |-> body, inflight |-> inflight,
      post_error |-> post_error, r |-> r, result |-> result, outcome |-> outcome ]

\* The frame of a call that has just been entered.
NewFrame(fl, key, arg, caller_id) ==
    [ file |-> fl, service_key |-> key, parameters |-> BoundValue(arg),
      parameters_id |-> BoundId(arg, caller_id), pc |-> "headers",
      headers |-> << >>, f |-> "none", image_buffer |-> <<>>, body |-> <<>>,
      inflight |-> FALSE, post_error |-> "", r |-> NoResponse, result |-> PyNone,
      outcome |-> NoOutcome ]

\* The interpreter switches threads: the running call is suspended with its
\* frame, the other call resumes with its own.  The requests sent, the
\* function's default object and the endpoint belong to no frame.
Switch ==
    /\ other # NoFrame
    /\ other' = Frame
    /\ cur' = 3 - cur
    /\ file' = other.file
    /\ service_key' = other.service_key
    /\ parameters' = other.parameters
    /\ parameters_id' = other.parameters_id
    /\ pc' = other.pc
    /\ headers' = other.headers
    /\ f' = other.f
    /\ image_buffer' = other.image_buffer
    /\ body' = other.body
    /\ inflight' = other.inflight
    /\ post_error' = other.post_error
    /\ r' = other.r
    /\ result' = other.result
    /\ outcome' = other.outcome
    /\ UNCHANGED <<net, default_dict, server, loopVars, cellVars>>

\* Inputs of the two calls.
TwoFiles == {[state |-> "ok", content |-> TenBytes], [state |-> "missing", content |-> TenBytes]}
TwoKeys == {PyNone, PyStr(KeyAbc123)}
TwoArgs == {Omitted, PyDict(<<AddSoftmax>>, <<PyBool(TRUE)>>)}
TwoResponses == [status : StatusCodes, text : {ServerBody(LabelCat), BodyNotJsonElement}]

InitTwo ==
    /\ default_dict = PyDict(<<>>, <<>>)
    /\ cur = 1
    /\ \E fl \in TwoFiles, key \in TwoKeys, arg \in TwoArgs :
           /\ file = fl
           /\ service_key = key
           /\ parameters = BoundValue(arg)
           /\ parameters_id = BoundId(arg, 1)
    /\ pc = "headers"
    /\ headers = << >>
    /\ f = "none"
    /\ image_buffer = <<>>
    /\ body = <<>>
    /\ net = <<>>
    /\ inflight = FALSE
    /\ post_error = ""
    /\ r = NoResponse
    /\ result = PyNone
    /\ outcome = NoOutcome
    /\ server = TwoResponses
    /\ \E fl \in TwoFiles, key \in TwoKeys, arg \in TwoArgs :
           other = NewFrame(fl, key, arg, 2)
    /\ LoopIdle
    /\ CellIdle

NextTwo ==
    \/ Next
    \/ Switch

SpecTwo == InitTwo /\ [][NextTwo]_vars

\* Response arrays that agree or differ on element 0 and on what follows it.
PairFirsts == {PyStr(<<"1">>), PyStr(<<"x">>), PyNum(<<"5">>)}
PairRests == {<<>>, <<PyStr(<<"x">>)>>, <<PyNum(<<"5">>), PyNone>>}
PairResponses ==
    [status : {200}, text : {Dumps(PyList(<<a>> \o rest)) : a \in PairFirsts, rest \in PairRests}]

\* Two calls with the same arguments, answered from the response arrays.
InitPair ==
    /\ default_dict = PyDict(<<>>, <<>>)
    /\ cur = 1
    /\ file = [state |-> "ok", content |-> TenBytes]
    /\ service_key = PyNone
    /\ parameters = BoundValue(Omitted)
    /\ parameters_id = BoundId(Omitted, 1)
    /\ pc = "headers"
    /\ headers = << >>
    /\ f = "none"
    /\ image_buffer = <<>>
    /\ body = <<>>
    /\ net = <<>>
    /\ inflight = FALSE
    /\ post_error = ""
    /\ r = NoResponse
    /\ result = PyNone
    /\ outcome = NoOutcome
    /\ server = PairResponses
    /\ other = NewFrame([state |-> "ok", content |-> TenBytes], PyNone, Omitted, 2)
    /\ LoopIdle
    /\ CellIdle

SpecPair == InitPair /\ [][NextTwo]_vars

-----------------------------------------------------------------------------
(* The batch loop: "Time image scoring" *)

\* How many images the image set holds at most.
MaxImages == 4

\* num_images = 10 in the first loop, num_images = 3 in the second.
NumImagesChoices == {3, 10}

\* len(images[:num_images])
SliceLen(n, num) == IF n < num THEN n ELSE num

\* What a scoring call hands back: the serialized result.
LoopResults == {PyStr(Dumps(LabelCat)), PyStr(Dumps(PyNone))}

callVars ==
    <<file, service_key, parameters, pc, headers, f, image_buffer, body, net,
      inflight, post_error, r, result, outcome, parameters_id, default_dict,
      server, other, cur>>

\* The cell starts: num_images is assigned, the for statement is next.
InitLoop ==
    /\ CellIdle
    /\ num_images \in NumImagesChoices
    /\ images \in 0..MaxImages
    /\ loop_pc = "for"
    /\ img_index = 0
    /\ issued = <<>>
    /\ outstanding = {}
    /\ printed = <<>>
    /\ file = [state |-> "ok", content |-> TenBytes]
    /\ service_key = PyNone
    /\ default_dict = PyDict(<<>>, <<>>)
    /\ cur = 1
    /\ parameters = BoundValue(Omitted)
    /\ parameters_id = BoundId(Omitted, cur)
    /\ server = Responses
    /\ other = NoFrame
    /\ pc = "none"
    /\ headers = << >>
    /\ f = "none"
    /\ image_buffer = <<>>
    /\ body = <<>>
    /\ net = <<>>
    /\ inflight = FALSE
    /\ post_error = ""
    /\ r = NoResponse
    /\ result = PyNone
    /\ outcome = NoOutcome

\* for img_index, img_obj in enumerate(images[:num_images]): the next item,
\* or the end of the loop.
LoopNext ==
    /\ loop_pc = "for"
    /\ loop_pc' = IF img_index < SliceLen(images, num_images) THEN "body" ELSE "finished"
    /\ UNCHANGED <<num_images, images, img_index, issued, outstanding, printed>>
    /\ UNCHANGED callVars
    /\ UNCHANGED cellVars

\* Faulty variant: the scoring call is started and the loop goes on to the
\* next image without waiting for it.
CallScoreAsync ==
    /\ loop_pc = "body"
    /\ issued' = Append(issued, img_index)
    /\ outstanding' = outstanding \cup {img_index}
    /\ img_index' = img_index + 1
    /\ loop_pc' = "for"
    /\ UNCHANGED <<num_images, images, printed>>
    /\ UNCHANGED callVars
    /\ UNCHANGED cellVars

\* print("Calling API ..."); tic = ...; deploy_obj.score_image(...) is called
\* and the loop waits in it.
CallScore ==
    /\ loop_pc = "body"
    /\ issued' = Append(issued, img_index)
    /\ outstanding' = outstanding \cup {img_index}
    /\ loop_pc' = "scoring"
    /\ UNCHANGED <<num_images, images, img_index, printed>>
    /\ UNCHANGED callVars
    /\ UNCHANGED cellVars

\* return_json = <the call's result>; print(time); print(return_json); back to
\* the for statement.
ScoreReturns ==
    /\ loop_pc = "scoring"
    /\ \E res \in LoopResults :
           printed' = Append(printed, [image |-> img_index, return_json |-> res])
    /\ outstanding' = outstanding \ {img_index}
    /\ img_index' = img_index + 1
    /\ loop_pc' = "for"
    /\ UNCHANGED <<num_images, images, issued>>
    /\ UNCHANGED callVars
    /\ UNCHANGED cellVars

\* Faulty variant: the call is wrapped, its error is swallowed and the loop
\* goes on with the next image.
ScoreRaisesContinue ==
    /\ loop_pc = "scoring"
    /\ outstanding' = outstanding \ {img_index}
    /\ img_index' = img_index + 1
    /\ loop_pc' = "for"
    /\ UNCHANGED <<num_images, images, issued, printed>>
    /\ UNCHANGED callVars
    /\ UNCHANGED cellVars

\* The call raises: nothing in the loop catches it, the cell ends with the
\* error.
ScoreRaises ==
    /\ loop_pc = "scoring"
    /\ outstanding' = outstanding \ {img_index}
    /\ loop_pc' = "aborted"
    /\ UNCHANGED <<num_images, images, img_index, issued, printed>>
    /\ UNCHANGED callVars
    /\ UNCHANGED cellVars

NextLoop ==
    \/ LoopNext
    \/ CallScore
    \/ ScoreReturns
    \/ ScoreRaises

SpecLoop == InitLoop /\ [][NextLoop]_vars

-----------------------------------------------------------------------------
(* The deployment cell *)

\* deployment_name of the three notebooks, and the example name of the
\* comment, a webservice of somebody else.
DeploymentNames == {"wsdeployment", "imagesimilarity"}
ServiceNames == DeploymentNames \cup {"mydeployment3"}

\* No call of score_image_with_http is running.
CallIdle ==
    /\ file = [state |-> "ok", content |-> TenBytes]
    /\ service_key = PyNone
    /\ default_dict = PyDict(<<>>, <<>>)
    /\ cur = 1
    /\ parameters = BoundValue(Omitted)
    /\ parameters_id = BoundId(Omitted, cur)
    /\ server = Responses
    /\ other = NoFrame
    /\ pc = "none"
    /\ headers = << >>
    /\ f = "none"
    /\ image_buffer = <<>>
    /\ body = <<>>
    /\ net = <<>>
    /\ inflight = FALSE
    /\ post_error = ""
    /\ r = NoResponse
    /\ result = PyNone
    /\ outcome = NoOutcome

\* The cell starts: deployment_name is set and deploy_obj is made, the if
\* statement is next.
InitCell ==
    /\ cell_pc = "check"
    /\ deployment_name \in DeploymentNames
    /\ services \in SUBSET ServiceNames
    /\ existing = "unknown"
    /\ calls = <<>>
    /\ LoopIdle
    /\ CallIdle

\* Faulty variant: the report of is_existing_service() is not acted on, the
\* cell goes straight to deploy().
CheckExistingIgnored ==
    /\ cell_pc = "check"
    /\ calls' = Append(calls, "is_existing_service")
    /\ \/ /\ existing' = IF deployment_name \in services THEN "yes" ELSE "no"
          /\ cell_pc' = "deploy"
       \/ /\ existing' = existing
          /\ cell_pc' = "aborted"
    /\ UNCHANGED <<deployment_name, services>>
    /\ UNCHANGED <<callVars, loopVars>>

\* if deploy_obj.is_existing_service(): the call reports whether a webservice
\* with the deployment name exists, or raises.
CheckExisting ==
    /\ cell_pc = "check"
    /\ calls' = Append(calls, "is_existing_service")
    /\ \/ /\ existing' = IF deployment_name \in services THEN "yes" ELSE "no"
          /\ cell_pc' = IF deployment_name \in services THEN "delete" ELSE "deploy"
       \/ /\ existing' = existing
          /\ cell_pc' = "aborted"
    /\ UNCHANGED <<deployment_name, services>>
    /\ UNCHANGED <<callVars, loopVars>>

\* AMLDeployment.delete_if_service_exist(deployment_name): the webservice is
\* deleted, or the call raises.
DeleteService ==
    /\ cell_pc = "delete"
    /\ calls' = Append(calls, "delete_if_service_exist")
    /\ \/ /\ services' = services \ {deployment_name}
          /\ cell_pc' = "deploy"
       \/ /\ services' = services
          /\ cell_pc' = "aborted"
    /\ UNCHANGED <<deployment_name, existing>>
    /\ UNCHANGED <<callVars, loopVars>>

\* print("Deploying to Azure cluster..."); deploy_obj.deploy() is called.
Deploy ==
    /\ cell_pc = "deploy"
    /\ calls' = Append(calls, "deploy")
    /\ cell_pc' = "deploying"
    /\ UNCHANGED <<deployment_name, services, existing>>
    /\ UNCHANGED <<callVars, loopVars>>

\* deploy() comes back and print("Deployment DONE") runs, or deploy() raises.
DeployEnds ==
    /\ cell_pc = "deploying"
    /\ \/ /\ services' = services \cup {deployment_name}
          /\ cell_pc' = "finished"
       \/ /\ services' = services
          /\ cell_pc' = "aborted"
    /\ UNCHANGED <<deployment_name, existing, calls>>
    /\ UNCHANGED <<callVars, loopVars>>

NextCell ==
    \/ CheckExisting
    \/ DeleteService
    \/ Deploy
    \/ DeployEnds

SpecCell == InitCell /\ [][NextCell]_vars

-----------------------------------------------------------------------------
(* Properties of the response handling *)

\* The call is over and a response had been received.
Answered == pc = "done" /\ r # NoResponse

IsJson(text) == Loads(text).ok
JsonOf(text) == Loads(text).val

\* text is a JSON array whose first element is a string.
FirstIsString(text) ==
    /\ IsJson(text)
    /\ JsonOf(text).t = "list"
    /\ Len(JsonOf(text).items) > 0
    /\ JsonOf(text).items[1].t = "str"

\* text is a JSON array whose first element is a string that parses as JSON.
DoubleEncoded(text) == FirstIsString(text) /\ IsJson(JsonOf(text).items[1].s)

\* C1: a response that is a JSON array whose first element is a string that
\* parses as JSON makes the call return that string itself, unparsed; when
\* the service encoded object v twice, the returned text is the encoding of v
\* and parses back to v.
C1_ReturnsInnerText ==
    (Answered /\ DoubleEncoded(r.text)) =>
        /\ outcome.kind = "return"
        /\ outcome.value = JsonOf(r.text).items[1]
        /\ \A v \in ServerObjects :
               r.text = ServerBody(v) =>
                   /\ outcome.value = PyStr(Dumps(v))
                   /\ Loads(outcome.value.s).ok
                   /\ Loads(outcome.value.s).val = v

C1_Witness ==
    /\ Answered
    /\ r.text = ServerBody(LabelCat)
    /\ outcome = Returned(PyStr(Dumps(LabelCat)))

-----------------------------------------------------------------------------
(* Properties of the request *)

B64Chars == {B64Alphabet[i] : i \in 1..64}
B64Index(c) == (CHOOSE i \in 1..64 : B64Alphabet[i] = c) - 1

\* x is base64 text: groups of four alphabet characters, the last group
\* possibly padded with one or two "=".
IsBase64(x) ==
    /\ Len(x) % 4 = 0
    /\ \A i \in 1..Len(x) :
           \/ x[i] \in B64Chars
           \/ x[i] = "=" /\ i = Len(x)
           \/ x[i] = "=" /\ i = Len(x) - 1 /\ x[Len(x)] = "="

RECURSIVE Base64Decode(_)
\* The bytes that base64 text x stands for.
Base64Decode(x) ==
    IF Len(x) = 0 THEN <<>>
    ELSE LET a == B64Index(x[1])
             b == B64Index(x[2])
         IN IF x[3] = "=" THEN << a * 4 + b \div 16 >>
            ELSE LET c == B64Index(x[3]) IN
                 IF x[4] = "=" THEN << a * 4 + b \div 16, (b % 16) * 16 + c \div 4 >>
                 ELSE << a * 4 + b \div 16, (b % 16) * 16 + c \div 4,
                         (c % 4) * 64 + B64Index(x[4]) >>
                      \o Base64Decode(SubSeq(x, 5, Len(x)))

\* The value of key k in the first element of the JSON array `data`.
RequestField(data, k) ==
    LET elem == JsonOf(data).items[1] IN elem.vals[IndexOf(elem.keys, k, 1)]

\* [{"image_in_base64": "AAECAwQFBgcICQ==", "parameters": {}}]
PlainExampleBody ==
    <<"[", "{", "\"", "i", "m", "a", "g", "e", "_", "i", "n", "_", "b", "a",
      "s", "e", "6", "4", "\"", ":", " ", "\"", "A", "A", "E", "C", "A", "w",
      "Q", "F", "B", "g", "c", "I", "C", "Q", "=", "=", "\"", ",", " ", "\"",
      "p", "a", "r", "a", "m", "e", "t", "e", "r", "s", "\"", ":", " ", "{",
      "}", "}", "]">>

\* [{"image_in_base64": "b'AAECAwQFBgcICQ=='", "parameters": {}}]
ExampleBody ==
    <<"[", "{", "\"", "i", "m", "a", "g", "e", "_", "i", "n", "_", "b", "a",
      "s", "e", "6", "4", "\"", ":", " ", "\"", "b", "'", "A", "A", "E", "C",
      "A", "w", "Q", "F", "B", "g", "c", "I", "C", "Q", "=", "=", "'", "\"",
      ",", " ", "\"", "p", "a", "r", "a", "m", "e", "t", "e", "r", "s", "\"",
      ":", " ", "{", "}", "}", "]">>

\* C2 (as claimed): the image_in_base64 field of every request is the plain
\* base64 text of the file content, with no wrapper, and decodes back to the
\* content; the ten bytes 0x00..0x09 with parameters {} give PlainExampleBody.
C2_PlainBase64 ==
    \A i \in 1..Len(net) :
        LET field == RequestField(net[i].data, KeyImage) IN
        /\ field.t = "str"
        /\ IsBase64(field.s)
        /\ Base64Decode(field.s) = file.content
        /\ (file.content = TenBytes /\ parameters = PyDict(<<>>, <<>>))
               => net[i].data = PlainExampleBody

\* C2 (amended): the image_in_base64 field of every request is the Python 3
\* text form of the bytes object, b'...': between b' and the closing ' stands
\* the plain base64 text of the file content, without line breaks, which
\* decodes back to the content; the ten bytes 0x00..0x09 with parameters {}
\* give ExampleBody.
C2_WrappedBase64 ==
    \A i \in 1..Len(net) :
        LET field == RequestField(net[i].data, KeyImage)
            inner == SubSeq(field.s, 3, Len(field.s) - 1)
        IN /\ field.t = "str"
           /\ Len(field.s) >= 3
           /\ SubSeq(field.s, 1, 2) = <<"b", "'">>
           /\ field.s[Len(field.s)] = "'"
           /\ IsBase64(inner)
           /\ Base64Decode(inner) = file.content
           /\ (file.content = TenBytes /\ parameters = PyDict(<<>>, <<>>))
                  => net[i].data = ExampleBody

C2_Witness ==
    /\ Len(net) = 1
    /\ file.content = TenBytes
    /\ parameters = PyDict(<<>>, <<>>)
    /\ net[1].data = ExampleBody

\* C3: without a service key the request has no Authorization header; with a
\* token the header is "Bearer", one space, the token ("Bearer abc123" for
\* the token abc123).
C3_BearerHeader ==
    \A i \in 1..Len(net) :
        /\ service_key = PyNone => "Authorization" \notin DOMAIN net[i].headers
        /\ service_key # PyNone =>
               /\ "Authorization" \in DOMAIN net[i].headers
               /\ net[i].headers["Authorization"]
                      = <<"B", "e", "a", "r", "e", "r">> \o <<" ">> \o service_key.s
        /\ service_key = PyStr(KeyAbc123) =>
               net[i].headers["Authorization"]
                   = <<"B", "e", "a", "r", "e", "r", " ", "a", "b", "c", "1", "2", "3">>

C3_Witness ==
    /\ Len(net) = 1
    /\ service_key = PyStr(KeyAbc123)
    /\ "Authorization" \in DOMAIN net[1].headers

\* C4: a response that is valid JSON but not an array (an object, a string, a
\* number, a boolean, null) makes the call raise ValueError and return nothing.
C4_NonArrayRaises ==
    (Answered /\ IsJson(r.text) /\ JsonOf(r.text).t # "list") =>
        /\ outcome.kind = "raise"
        /\ outcome.exc = "ValueError"

\* C5: a response that is a JSON array whose first element is a string that
\* does not parse as JSON makes the call raise ValueError.
C5_UnparseableElementRaises ==
    (Answered /\ FirstIsString(r.text) /\ ~IsJson(JsonOf(r.text).items[1].s)) =>
        /\ outcome.kind = "raise"
        /\ outcome.exc = "ValueError"

C5_Witness ==
    /\ Answered
    /\ r.text = BodyNotJsonElement
    /\ outcome.kind = "raise"
    /\ outcome.exc = "ValueError"

\* text occurs in msg as a contiguous run of characters.
Contains(msg, text) ==
    \E i \in 1..(Len(msg) + 1) :
        /\ i + Len(text) - 1 <= Len(msg)
        /\ SubSeq(msg, i, i + Len(text) - 1) = text

\* text is not JSON, or is an empty array, or is an array whose first element
\* is not a string that parses as JSON.
Malformed(text) ==
    \/ ~IsJson(text)
    \/ /\ IsJson(text)
       /\ JsonOf(text).t = "list"
       /\ \/ Len(JsonOf(text).items) = 0
          \/ ~DoubleEncoded(text)

\* C6: a response that is not JSON, or is an empty array, or whose first
\* element is not valid JSON, never lets the call reach its return statement:
\* the call raises ValueError and the message holds the whole response text.
C6_MalformedCarriesText ==
    (r # NoResponse /\ Malformed(r.text)) =>
        /\ pc # "return"
        /\ outcome.kind # "return"
        /\ pc = "done" =>
               /\ outcome.kind = "raise"
               /\ outcome.exc = "ValueError"
               /\ Contains(outcome.msg, r.text)

C6_Witness ==
    /\ Answered
    /\ r.text = BodyHtml
    /\ outcome = Raised("ValueError", ErrorPrefix \o BodyHtml)

\* The outer json.loads fails on text.
OuterFails(text) == ~IsJson(text)
\* The outer json.loads yields an array with a first element, and json.loads
\* of that element fails.
InnerFails(text) ==
    /\ IsJson(text)
    /\ JsonOf(text).t = "list"
    /\ Len(JsonOf(text).items) > 0
    /\ ~DoubleEncoded(text)

\* C7: a failure of the outer parse and a failure of the inner parse end the
\* call with the same error: one ValueError, its message the fixed prefix
\* followed by the response text.
C7_SameErrorKind ==
    (Answered /\ (OuterFails(r.text) \/ InnerFails(r.text))) =>
        outcome = Raised("ValueError", ErrorPrefix \o r.text)

C7_Witness ==
    /\ Answered
    /\ InnerFails(r.text)
    /\ r.text = BodyTwoElementsBadFirst
    /\ outcome.kind = "raise"
    /\ outcome.exc = "ValueError"

-----------------------------------------------------------------------------
(* Properties of the call as a whole *)

\* The with block ran to its end: the content was read and f closed.
ReadSucceeded == file.state = "ok" /\ f = "closed"

C9_TransportErrorPropagates ==
    post_error # "" =>
        /\ pc = "done"
        /\ ~inflight
        /\ outcome = Raised(post_error, <<>>)
        /\ outcome.exc # "ValueError"
        /\ Len(net) = 1

C9_Witness ==
    /\ pc = "done"
    /\ post_error = "ConnectionError"
    /\ outcome.kind = "raise"
    /\ outcome.exc = "ConnectionError"

\* C10: the file is not open when the call is over, however it ended, and it
\* is closed from the moment the POST is issued.
C10_FileClosed ==
    /\ pc = "done" => f # "open"
    /\ inflight => f = "closed"
    /\ Len(net) > 0 => f = "closed"

C10_Witness ==
    /\ inflight
    /\ Len(net) = 1
    /\ f = "closed"

-----------------------------------------------------------------------------
(* Further properties of one call *)

\* C11: when the file cannot be opened or read, the call ends with the error
\* open() or read() raised (FileNotFoundError, PermissionError, OSError), not
\* caught, wrapped or replaced, and goes no further.
C11_IoErrorPropagates ==
    /\ file.state # "ok" => pc \in {"headers", "open", "read", "done"}
    /\ (pc = "done" /\ file.state = "missing") =>
           outcome = Raised("FileNotFoundError", <<>>)
    /\ (pc = "done" /\ file.state = "denied") =>
           outcome = Raised("PermissionError", <<>>)
    /\ (pc = "done" /\ file.state = "ioerror") => outcome = Raised("OSError", <<>>)

C11_Witness ==
    /\ pc = "done"
    /\ file.state = "missing"
    /\ outcome.kind = "raise"
    /\ outcome.exc = "FileNotFoundError"

\* C13: the body of every request is a JSON array of exactly one element, an
\* object with exactly the keys image_in_base64, a string, and parameters, an
\* object.
C13_RequestShape ==
    \A i \in 1..Len(net) :
        /\ IsJson(net[i].data)
        /\ JsonOf(net[i].data).t = "list"
        /\ Len(JsonOf(net[i].data).items) = 1
        /\ LET elem == JsonOf(net[i].data).items[1] IN
           /\ elem.t = "dict"
           /\ Len(elem.keys) = 2
           /\ {elem.keys[k] : k \in 1..2} = {KeyImage, KeyParameters}
           /\ RequestField(net[i].data, KeyImage).t = "str"
           /\ RequestField(net[i].data, KeyParameters).t = "dict"

C13_Witness ==
    /\ Len(net) = 1
    /\ JsonOf(net[1].data).t = "list"
    /\ Len(JsonOf(net[1].data).items) = 1

\* C14: the parameters key of every request holds the caller's mapping, same
\* keys and same values; when the argument was omitted it holds {}.
C14_ParametersForwarded ==
    \A i \in 1..Len(net) :
        /\ RequestField(net[i].data, KeyParameters) = parameters
        /\ parameters_id = DefaultId =>
               RequestField(net[i].data, KeyParameters) = PyDict(<<>>, <<>>)

C14_Witness ==
    /\ Len(net) = 1
    /\ parameters = PyDict(<<AddSoftmax>>, <<PyBool(TRUE)>>)
    /\ RequestField(net[1].data, KeyParameters) = parameters

C18_Terminates == <>(pc = "done")

-----------------------------------------------------------------------------
(* Properties of two calls *)

\* Both calls are over.
BothDone == other # NoFrame /\ pc = "done" /\ other.pc = "done"

\* C12: two responses with the same body give the same outcome, whatever
\* their status codes.
C12_StatusIgnored ==
    (BothDone /\ r # NoResponse /\ other.r # NoResponse /\ r.text = other.r.text)
        => outcome = other.outcome

C12_Witness ==
    /\ BothDone
    /\ r.text = other.r.text
    /\ r.status = 200
    /\ other.r.status = 500
    /\ outcome.kind = "return"
    /\ outcome = other.outcome

\* The call with its frame has issued its POST.
Posted(fr) == fr.pc \in {"wait", "parse", "return"} \/ (fr.pc = "done" /\ fr.body # <<>>)

\* C15: two calls are never bound to the same parameters object; in
\* particular each call that omits the argument has a mapping of its own.
C15_FreshDefault ==
    (other # NoFrame /\ Posted(Frame) /\ Posted(other))
        => parameters_id # other.parameters_id

\* The requests call `id` has sent.
RequestsOf(id) == SelectSeq(net, LAMBDA e : e.call = id)

\* What a call with frame fr sends and how it ends when it runs alone, from
\* its own arguments, its own file and the answer to its own request.
AloneRequest(fr) ==
    [ headers |-> MakeHeaders(fr.service_key),
      data |-> Dumps(MakePayload(fr.file.content, fr.parameters)) ]
AloneOutcome(fr) ==
    IF OpenError(fr.file) # "" THEN Raised(OpenError(fr.file), <<>>)
    ELSE IF fr.file.state = "ioerror" THEN Raised("OSError", <<>>)
    ELSE IF ~Serializable(fr.parameters) THEN Raised("TypeError", <<>>)
    ELSE IF fr.post_error # "" THEN Raised(fr.post_error, <<>>)
    ELSE IF DoubleEncoded(fr.r.text) THEN Returned(JsonOf(fr.r.text).items[1])
    ELSE Raised("ValueError", ErrorPrefix \o fr.r.text)

Independent(fr, id) ==
    /\ Len(RequestsOf(id)) <= 1
    /\ \A i \in 1..Len(RequestsOf(id)) :
           [headers |-> RequestsOf(id)[i].headers, data |-> RequestsOf(id)[i].data]
               = AloneRequest(fr)
    /\ Posted(fr) => Len(RequestsOf(id)) = 1
    /\ fr.pc = "done" => fr.outcome = AloneOutcome(fr)

\* C17: under every interleaving of two calls, no step of one call writes
\* state the other reads: the object they may share, the default dict, stays
\* as it was made, and each call sends the request and ends with the outcome
\* that its own arguments, file and response determine.
C17_CallsIndependent ==
    other # NoFrame =>
        /\ default_dict = PyDict(<<>>, <<>>)
        /\ Independent(Frame, cur)
        /\ Independent(other, 3 - cur)

C17_Witness ==
    /\ BothDone
    /\ Len(net) = 2
    /\ net[1].call = 2
    /\ parameters_id = DefaultId
    /\ other.parameters_id = DefaultId
    /\ outcome.kind = "return"
    /\ other.outcome.kind = "raise"

-----------------------------------------------------------------------------
(* Properties of the batch loop *)

\* The images a call was issued for.
IssuedImages == {issued[i] : i \in 1..Len(issued)}

\* The images whose result was printed.
PrintedImages == {printed[i].image : i \in 1..Len(printed)}

\* The images whose call failed: issued, over, and without a result.
FailedImages == (IssuedImages \ outstanding) \ PrintedImages

\* C19: once the call for image k has failed the loop is aborted, no call
\* was or is issued for an image after k, the results are those of the
\* images before k, and no later step changes a result.
C19_AbortsAtFirstFailure ==
    [][ /\ \A k \in FailedImages' :
               /\ loop_pc' = "aborted"
               /\ \A i \in IssuedImages' : i <= k
               /\ PrintedImages' = 0..(k - 1)
        /\ Len(printed') >= Len(printed)
        /\ \A i \in 1..Len(printed) : printed'[i] = printed[i]
        /\ FailedImages # {} => (issued' = issued /\ printed' = printed) ]_vars

C19_Witness ==
    /\ loop_pc = "aborted"
    /\ FailedImages = {1}
    /\ SliceLen(images, num_images) >= 3
    /\ Len(printed) = 1
    /\ issued = <<0, 1>>

\* C20: at most one scoring call is outstanding, the calls are issued in the
\* order of the images, and every call before the last one issued has
\* returned.
C20_NoPipelining ==
    /\ Cardinality(outstanding) <= 1
    /\ \A i \in 1..Len(issued) : issued[i] = i - 1
    /\ \A i \in 1..Len(issued) :
           i < Len(issued) => (issued[i] \notin outstanding /\ issued[i] \in PrintedImages)
    /\ outstanding # {} => outstanding = {issued[Len(issued)]}

C20_Witness ==
    /\ Len(issued) = 3
    /\ outstanding = {2}
    /\ Len(printed) = 2

-----------------------------------------------------------------------------
(* Frame of one call *)

\* C21: no step of a call changes the file or the state that outlives the
\* call; what a step changes outside the call is the list of requests, by
\* the one request of the call.
C21_OnlyEffectIsRequest ==
    [][ /\ file' = file
        /\ default_dict' = default_dict
        /\ net' # net => (net = <<>> /\ Len(net') = 1 /\ pc = "post") ]_vars

C21_Witness ==
    /\ pc = "done"
    /\ outcome.kind = "return"
    /\ file.state = "ok"
    /\ file.content = TenBytes
    /\ f = "closed"
    /\ Len(net) = 1

-----------------------------------------------------------------------------
(* Further properties of the response handling *)

\* v[0] succeeds: v is a non-empty array or a non-empty string.
Indexable(v) ==
    \/ v.t = "list" /\ Len(v.items) > 0
    \/ v.t = "str" /\ Len(v.s) > 0

\* v[0]: the first element of an array, the first character of a string.
Element0(v) == IF v.t = "list" THEN v.items[1] ELSE PyStr(<<v.s[1]>>)

\* The three steps succeed on text: it parses, the parsed value can be
\* indexed with [0], and the element is a string that parses.
ThreeStepsSucceed(text) ==
    /\ IsJson(text)
    /\ Indexable(JsonOf(text))
    /\ Element0(JsonOf(text)).t = "str"
    /\ IsJson(Element0(JsonOf(text)).s)

\* C22: an answered call returns exactly when the three steps succeed on the
\* response body, and then returns the element obtained by [0]; otherwise it
\* raises ValueError.
C22_ReturnsIffThreeSteps ==
    Answered =>
        IF ThreeStepsSucceed(r.text)
        THEN outcome = Returned(Element0(JsonOf(r.text)))
        ELSE outcome.kind = "raise" /\ outcome.exc = "ValueError"

C22_Witness ==
    /\ Answered
    /\ r.text = BodyDigitString
    /\ outcome = Returned(PyStr(<<"1">>))

\* C23: a response that is a JSON array whose first element is not a string
\* makes the call raise ValueError; the element is not returned.
C23_NonStringElementRaises ==
    ( /\ Answered
      /\ IsJson(r.text)
      /\ JsonOf(r.text).t = "list"
      /\ Len(JsonOf(r.text).items) > 0
      /\ JsonOf(r.text).items[1].t # "str" ) =>
        /\ outcome.kind = "raise"
        /\ outcome.exc = "ValueError"

C23_Witness ==
    /\ Answered
    /\ r.text = BodySinglyEncoded
    /\ JsonOf(r.text).items[1].t = "dict"
    /\ outcome.kind = "raise"
    /\ outcome.exc = "ValueError"

-----------------------------------------------------------------------------
(* Two responses that agree on element 0 *)

\* Both calls got a response array, the two arrays have the same element 0
\* and differ after it.
AgreeOnElement0 ==
    /\ BothDone
    /\ r # NoResponse /\ other.r # NoResponse
    /\ IsJson(r.text) /\ IsJson(other.r.text)
    /\ JsonOf(r.text).t = "list" /\ JsonOf(other.r.text).t = "list"
    /\ Len(JsonOf(r.text).items) > 0 /\ Len(JsonOf(other.r.text).items) > 0
    /\ JsonOf(r.text).items[1] = JsonOf(other.r.text).items[1]
    /\ r.text # other.r.text

\* C24 (as claimed): two response arrays that agree on element 0 give the
\* same outcome, whatever follows element 0.
C24_SameOutcome == AgreeOnElement0 => outcome = other.outcome

\* C24 (amended): two response arrays that agree on element 0 both return
\* element 0 or both raise ValueError; the message of the ValueError is the
\* prefix followed by the call's own response text, remaining elements
\* included.
C24_SameOutcomeKind ==
    AgreeOnElement0 =>
        /\ outcome.kind = other.outcome.kind
        /\ outcome.kind = "return" =>
               /\ outcome = other.outcome
               /\ outcome.value = JsonOf(r.text).items[1]
        /\ outcome.kind = "raise" =>
               /\ outcome.exc = "ValueError"
               /\ other.outcome.exc = "ValueError"
               /\ outcome.msg = ErrorPrefix \o r.text
               /\ other.outcome.msg = ErrorPrefix \o other.r.text

C24_Witness ==
    /\ AgreeOnElement0
    /\ Len(JsonOf(r.text).items) = 1
    /\ Len(JsonOf(other.r.text).items) = 3
    /\ outcome.kind = "return"
    /\ outcome = other.outcome

-----------------------------------------------------------------------------
(* The service key *)

\* C25: the headers built, and those of every request, hold Authorization
\* exactly when service_key is not None; for the empty key the value is
\* "Bearer " with nothing after the space.
C25_AuthorizationIffKey ==
    /\ pc # "headers" =>
           /\ ("Authorization" \in DOMAIN headers) <=> (service_key # PyNone)
           /\ service_key = PyStr(<<>>) =>
                  headers["Authorization"] = <<"B", "e", "a", "r", "e", "r", " ">>
    /\ \A i \in 1..Len(net) :
           /\ ("Authorization" \in DOMAIN net[i].headers) <=> (service_key # PyNone)
           /\ service_key = PyStr(<<>>) =>
                  net[i].headers["Authorization"] = <<"B", "e", "a", "r", "e", "r", " ">>

C25_Witness ==
    /\ Len(net) = 1
    /\ service_key = PyStr(<<>>)
    /\ Len(net[1].headers["Authorization"]) = 7

-----------------------------------------------------------------------------
(* The order of the steps *)

\* The place of a step in the order headers, open, read, close, encode and
\* serialize, POST, response, parse, return.
StepOrder ==
    <<"headers", "open", "read", "exit_with", "encode", "post", "wait", "parse",
      "return", "done">>
Rank(p) == CHOOSE i \in 1..Len(StepOrder) : StepOrder[i] = p

\* C26: every step of a call goes to the next step of the fixed order or
\* ends the call; what a later step produces exists only once the earlier
\* steps are over, and a call whose open or read failed has issued no request.
C26_FixedOrder ==
    [][ /\ pc' # pc => (pc' = "done" \/ Rank(pc') = Rank(pc) + 1)
        /\ f' # "none" => headers' # << >>
        /\ body' # <<>> => f' = "closed"
        /\ net' # <<>> => (body' # <<>> /\ f' = "closed" /\ net'[1].data = body')
        /\ r' # NoResponse => Len(net') = 1
        /\ result' # PyNone => r' # NoResponse
        /\ file'.state # "ok" => (net' = <<>> /\ body' = <<>> /\ r' = NoResponse) ]_vars

C26_Witness ==
    /\ pc = "done"
    /\ file.state = "ioerror"
    /\ f = "closed"
    /\ headers # << >>
    /\ net = <<>>
    /\ outcome.kind = "raise"

-----------------------------------------------------------------------------
(* The parameters mapping *)

\* The mapping each of the two calls was given, by call.
CallParameters == (cur :> parameters) @@ ((3 - cur) :> other.parameters)

\* The calls that were bound to the function's default object.
OmittedCalls ==
    {id \in {cur, 3 - cur} :
        IF id = cur THEN parameters_id = DefaultId ELSE other.parameters_id = DefaultId}

\* C27: no step of either call changes the default mapping or a mapping a
\* caller gave; the default mapping is empty at every point of the two calls,
\* and every request of a call that omitted parameters carries {}.
C27_ParametersNeverMutated ==
    [][ /\ default_dict' = default_dict
        /\ CallParameters' = CallParameters
        /\ default_dict' = PyDict(<<>>, <<>>)
        /\ \A i \in 1..Len(net') :
               net'[i].call \in OmittedCalls' =>
                   RequestField(net'[i].data, KeyParameters) = PyDict(<<>>, <<>>) ]_vars

C27_Witness ==
    /\ BothDone
    /\ Len(net) = 2
    /\ parameters_id = DefaultId
    /\ other.parameters = PyDict(<<AddSoftmax>>, <<PyBool(TRUE)>>)
    /\ other.outcome.kind = "return"
    /\ outcome.kind = "raise"
    /\ default_dict = PyDict(<<>>, <<>>)

-----------------------------------------------------------------------------
(* Properties of the deployment cell *)

\* How many times the method was invoked.
Invocations(op) == Cardinality({i \in 1..Len(calls) : calls[i] = op})

\* The cell is over, finished or left by an exception.
CellOver == cell_pc \in {"finished", "aborted"}

\* When an existing service was reported, the deletion is invoked before
\* deploy(), and deploy() is never invoked before a deletion.
DeleteBeforeDeploy ==
    /\ \A i \in 1..Len(calls) :
           (calls[i] = "deploy" /\ existing = "yes") =>
               \E j \in 1..(i - 1) : calls[j] = "delete_if_service_exist"
    /\ \A i \in 1..Len(calls) : \A j \in 1..Len(calls) :
           (calls[i] = "deploy" /\ calls[j] = "delete_if_service_exist") => j < i

=============================================================================
